---- MODULE Spec2Model ----
(***************************************************************************)
(* Model of src/server.mjs: the POST /api/chat handler of the yorisoi      *)
(* voice server, its keyword scorer, ICF tagger and danger detector, and   *)
(* the two outbound gateways (chat completion, speech synthesis).          *)
(*                                                                         *)
(* A JavaScript value arriving as `message` is a record [kind, v]:         *)
(*   "string"    v the sequence of its UTF-16 code units (all configured   *)
(*               words lie in the BMP, one unit per character);            *)
(*   "array"     v the sequence of its elements, each a string;            *)
(*   "other"     a truthy value without an includes method (a number       *)
(*               other than 0, true, an object);                            *)
(*   "falsy"     null, 0 or false;   "undefined"  no message field.        *)
(* A response text is the sequence of the string pieces the code           *)
(* concatenates with `+`; concatenation is \o.                             *)
(***************************************************************************)
EXTENDS Integers, Sequences, FiniteSets

\* ------------------------------------------------------------------ words
\* server.mjs:30  negativeWords, in declaration order
w_tsukare    == <<30130, 12428>>                        \* 疲れ
w_tsurai     == <<12388, 12425, 12356>>                 \* つらい
w_fuan       == <<19981, 23433>>                        \* 不安
w_kanashii   == <<24754, 12375, 12356>>                 \* 悲しい
w_kowai      == <<12371, 12431, 12356>>                 \* こわい
w_moudame    == <<12418, 12358, 12384, 12417>>          \* もうだめ
w_kietai     == <<28040, 12360, 12383, 12356>>          \* 消えたい
w_shinitai   == <<27515, 12395, 12383, 12356>>          \* 死にたい
w_iyada      == <<12356, 12420, 12384>>                 \* いやだ
\* server.mjs:31  positiveWords, in declaration order
w_ureshii    == <<12358, 12428, 12375, 12356>>          \* うれしい
w_tanoshii   == <<27005, 12375, 12356>>                 \* 楽しい
w_anshin     == <<23433, 24515>>                        \* 安心
w_daijoubu   == <<22823, 19976, 22827>>                 \* 大丈夫
w_dekita     == <<12391, 12365, 12383>>                 \* できた
w_arigatou   == <<12354, 12426, 12364, 12392, 12358>>   \* ありがとう
w_hotto      == <<12411, 12387, 12392>>                 \* ほっと
\* server.mjs:34  the danger words not already listed above
w_jisatsu    == <<33258, 27578>>                        \* 自殺
w_genkai     == <<38480, 30028>>                        \* 限界
w_moumuri    == <<12418, 12358, 28961, 29702>>          \* もう無理
\* server.mjs:62-69  the substrings detectICF looks for
k_nemu       == <<30496>>                               \* 眠
k_ne         == <<23517>>                               \* 寝
k_kowa       == <<24598>>                               \* 怖
k_tsuka      == <<30130>>                               \* 疲
k_isoga      == <<24537>>                               \* 忙
k_benkyou    == <<21193, 24375>>                        \* 勉強
k_tesuto     == <<12486, 12473, 12488>>                 \* テスト
k_gakkou     == <<23398, 26657>>                        \* 学校
k_tomo       == <<21451>>                               \* 友
k_ningen     == <<20154, 38291, 38306, 20418>>          \* 人間関係
k_ie         == <<23478>>                               \* 家
k_oya        == <<35242>>                               \* 親
k_shigoto    == <<20181, 20107>>                        \* 仕事
k_shokuba    == <<32887, 22580>>                        \* 職場

negativeWords ==
  << w_tsukare, w_tsurai, w_fuan, w_kanashii, w_kowai,
     w_moudame, w_kietai, w_shinitai, w_iyada >>

positiveWords ==
  << w_ureshii, w_tanoshii, w_anshin, w_daijoubu, w_dekita, w_arigatou, w_hotto >>

dangerWords ==
  << w_shinitai, w_kietai, w_jisatsu, w_genkai, w_moumuri >>

\* icf-tags.json is read at start-up (server.mjs:27); a tag is known here by
\* the key under which detectICF looks it up.
icfTags ==
  [ c \in {"sleep", "emotion", "stress", "learning", "school",
           "relationships", "family", "work"} |-> [code |-> c, label |-> c] ]

\* The emotion score at start-up.
InitialScore == 70

\* ------------------------------------------------------------ pure helpers
Str(t) == [kind |-> "string", v |-> t]
Arr(a) == [kind |-> "array", v |-> a]
Other == [kind |-> "other", v |-> <<>>]
Falsy == [kind |-> "falsy", v |-> <<>>]
Absent == [kind |-> "undefined", v |-> <<>>]

\* text.includes is a function: String.prototype.includes or
\* Array.prototype.includes.  On any other value the call on line 43 throws
\* TypeError before anything is written.
hasIncludes(text) == text.kind \in {"string", "array"}

\* A search that never tries the first position of the text.
includesFromSecond(text, w) ==
  IF text.kind = "array"
  THEN \E i \in 1..Len(text.v) : text.v[i] = w
  ELSE \E i \in 1..(Len(text.v) - Len(w)) : SubSeq(text.v, i + 1, i + Len(w)) = w

\* text.includes(w).  On a string: w occurs as a contiguous substring.  On
\* an array: some element is strictly equal to w.
includes(text, w) ==
  IF text.kind = "array"
  THEN \E i \in 1..Len(text.v) : text.v[i] = w
  ELSE \E i \in 0..(Len(text.v) - Len(w)) : SubSeq(text.v, i + 1, i + Len(w)) = w

\* One `for (const w of words) if (text.includes(w)) score += delta` loop.
RECURSIVE scoreLoop(_, _, _, _)
scoreLoop(words, text, score, delta) ==
  IF words = <<>> THEN score
  ELSE scoreLoop(Tail(words), text,
                 IF includes(text, Head(words)) THEN score + delta ELSE score,
                 delta)

\* A scorer that leaves out the lower clamp.
clampNoFloor(score) ==
  IF score > 100 THEN 100 ELSE score

\* Math.max(0, Math.min(100, score))
clamp(score) ==
  LET m == IF score < 100 THEN score ELSE 100
  IN  IF m > 0 THEN m ELSE 0

\* A scorer that counts every occurrence of a word, not each word once.
RECURSIVE occurrenceLoop(_, _, _, _)
occurrenceLoop(words, text, score, delta) ==
  IF words = <<>> THEN score
  ELSE occurrenceLoop(Tail(words), text,
         score + delta *
           (IF text.kind = "array"
            THEN Cardinality({ i \in 1..Len(text.v) : text.v[i] = Head(words) })
            ELSE Cardinality({ i \in 0..(Len(text.v) - Len(Head(words))) :
                     SubSeq(text.v, i + 1, i + Len(Head(words))) = Head(words) })),
         delta)

updateEmotionScoreCounting(current, text) ==
  clamp(occurrenceLoop(positiveWords, text,
                       occurrenceLoop(negativeWords, text, current, -5), 5))

\* updateEmotionScore: the value computed from the shared score `current`
\* and the text; the handler stores it and pushes it on the history.
updateEmotionScore(current, text) ==
  clamp(scoreLoop(positiveWords, text,
                  scoreLoop(negativeWords, text, current, -5), 5))

\* A history that records a score only when it changed.
pushHistoryOnChange(history, current, score) ==
  IF score = current THEN history ELSE Append(history, [score |-> score])

\* emotionHistory.push({ time: Date.now(), score }); the timestamp is the
\* wall clock and is read by nothing in the program, so an entry is modelled
\* by its score field.
pushHistory(history, current, score) ==
  Append(history, [score |-> score])

\* detectICF: the tags in the fixed category order.
detectICF(text) ==
  LET tag(cond, c) == IF cond THEN << icfTags[c] >> ELSE <<>>
  IN     tag(includes(text, k_nemu) \/ includes(text, k_ne), "sleep")
      \o tag(includes(text, w_fuan) \/ includes(text, k_kowa), "emotion")
      \o tag(includes(text, k_tsuka) \/ includes(text, k_isoga), "stress")
      \o tag(includes(text, k_benkyou) \/ includes(text, k_tesuto), "learning")
      \o tag(includes(text, k_gakkou), "school")
      \o tag(includes(text, k_tomo) \/ includes(text, k_ningen), "relationships")
      \o tag(includes(text, k_ie) \/ includes(text, k_oya), "family")
      \o tag(includes(text, k_shigoto) \/ includes(text, k_shokuba), "work")

\* A detector that asks for every danger word instead of any.
detectDangerEvery(text) ==
  \A i \in 1..Len(dangerWords) : includes(text, dangerWords[i])

\* detectDanger: dangerWords.some(w => text.includes(w))
detectDanger(text) ==
  \E i \in 1..Len(dangerWords) : includes(text, dangerWords[i])

\* dangerResponse(): the six string literals it concatenates.
dangerResponse ==
  << "You are feeling very hurt right now. Your feelings matter, ",
     "you do not have to carry this alone.\n\n",
     "It is safe to talk together with a trusted adult, teacher or family member. ",
     "I am here, but matters of life need the help of professionals too.\n\n",
     "Shall we take one deep breath first?\n",
     "Counting four while breathing in, six while breathing out, slowly is fine." >>

\* breathingGuide(): the six string literals it concatenates.
breathingGuide ==
  << "\n\nLet us take a little time together to settle our breathing. ",
     "Only as far as is comfortable.\n",
     "1 breathe in through the nose for 4 seconds\n",
     "2 hold for 2 seconds\n",
     "3 breathe out slowly through the mouth for 6 seconds\n",
     "Your own pace is OK." >>

\* ------------------------------------------------------------------ bounds
\* Requests the server receives in one run; any number of them may be
\* waiting on a gateway at the same time.
MaxRequests == 3
\* Pieces concatenated into a message of the one-request specification.
MaxPieces == 2

\* ------------------------------------------------------------------ inputs
\* The four fragments and ten words from which the one-request specification
\* builds its messages.  Fragments join into listed words across a piece
\* boundary (shini+tai, kie+tai, mou+muri, mou+dame) and fu+anshin holds the
\* negative word fuan and the positive word anshin overlapping.
Pieces ==
  { w_tsukare, w_tsurai, w_anshin, w_daijoubu, w_jisatsu, w_genkai, k_gakkou,
    <<19981>>,                 \* 不
    <<12418, 12358>>,          \* もう
    <<28961, 29702>>,          \* 無理
    <<12384, 12417>>,          \* だめ
    <<27515, 12395>>,          \* 死に
    <<28040, 12360>>,          \* 消え
    <<12383, 12356>> }         \* たい

RECURSIVE TextsOf(_)
TextsOf(n) ==
  IF n = 0 THEN { <<>> }
  ELSE LET shorter == TextsOf(n - 1)
       IN  shorter \cup { t \o p : t \in shorter, p \in Pieces }

ScanTexts == TextsOf(MaxPieces)

\* Array messages: empty; one crisis word; a negative and a positive word;
\* one element that holds listed words without being equal to one.
ScanArrays ==
  { <<>>, << w_shinitai >>, << w_tsurai, w_anshin >>, << w_shinitai \o w_tsurai >> }

\* Messages of the many-request specification.
t_heavy    == w_tsukare \o w_tsurai \o w_fuan \o w_kanashii
              \o w_kowai \o w_moudame \o w_iyada             \* seven negatives
t_glad     == w_ureshii \o w_tanoshii \o w_anshin \o w_daijoubu
              \o w_dekita \o w_arigatou \o w_hotto           \* seven positives
t_crisis   == w_moumuri \o <<12289>> \o w_kietai              \* もう無理、消えたい
a_tired    == << w_tsukare, w_fuan, w_tsurai, w_iyada >>      \* four negatives

MainTexts == { t_heavy, t_glad, t_crisis }
MainArrays == { a_tired }

\* The values of req.body.message.
BodiesOf(texts, arrays) ==
  { Absent, Other } \cup { Str(t) : t \in texts } \cup { Arr(a) : a \in arrays }
MainBodies == BodiesOf(MainTexts, MainArrays)
ScanBodies == BodiesOf(ScanTexts, ScanArrays) \cup { Falsy }

\* What the completion service may answer, and the encoded audio.
MainOutputs == { << "I hear you." >> }
ScanOutputs == { << "I hear you." >>, << "Thank you for telling me." >> }
AudioOutputs == { "UklGRg==" }

\* ------------------------------------------------------------------- state
VARIABLES
  emotionScore,      \* let emotionScore (server.mjs:23)
  emotionHistory,    \* let emotionHistory (server.mjs:24)
  req                \* one record per POST /api/chat call, in arrival order

vars == << emotionScore, emotionHistory, req >>

Requests == 1..MaxRequests

\* A call that has not arrived yet.
FreshRequest ==
  [ pc             |-> "RECEIVE",
    body           |-> Absent,
    userText       |-> Str(<<>>),
    before         |-> InitialScore,   \* the shared score the handler read
    score          |-> InitialScore,   \* const score
    icfList        |-> <<>>,
    danger         |-> FALSE,
    aiOut          |-> <<>>,           \* what generateAIResponse returned
    text           |-> <<>>,           \* safeText or aiText
    completionArgs |-> <<>>,           \* one entry per generateAIResponse call
    speechArgs     |-> <<>>,           \* one entry per synthesizeVoice call
    responses      |-> <<>> ]          \* one entry per response written

\* A handler that stringifies an absent message: "undefined".
messageStringified(body) ==
  IF body.kind = "undefined"
  THEN Str(<< 117, 110, 100, 101, 102, 105, 110, 101, 100 >>)
  ELSE IF body.kind = "falsy" \/ body = Str(<<>>) THEN Str(<<>>) ELSE body

\* req.body.message || "": undefined, null, 0, false and "" give "".
messageOrEmpty(body) ==
  IF body.kind \in {"undefined", "falsy"} \/ body = Str(<<>>) THEN Str(<<>>) ELSE body

\* The states a single process reaches by answering single-keyword messages
\* one after another: every score 70 +/- 5k with the history that led there.
ReachableScores == { s \in 0..100 : s % 5 = 0 }
historyTo(s) ==
  LET n == (IF s < InitialScore THEN InitialScore - s ELSE s - InitialScore) \div 5
  IN  [ i \in 1..n |->
        [score |-> IF s < InitialScore THEN InitialScore - 5 * i
                                       ELSE InitialScore + 5 * i] ]

Init ==
  /\ emotionScore = InitialScore
  /\ emotionHistory = <<>>
  /\ req = [r \in Requests |-> FreshRequest]

InitScan ==
  /\ emotionScore \in ReachableScores
  /\ emotionHistory = historyTo(emotionScore)
  /\ req = [r \in Requests |-> FreshRequest]

\* ----------------------------------------------------------------- handler
\* A danger branch that appends the breathing guide to the safety text.
safeTextWithGuide ==
  dangerResponse \o breathingGuide

\* const safeText = dangerResponse();
safeText ==
  dangerResponse

\* A guide decision taken on the shared score instead of the handler's own.
appendGuideShared(aiText, score) ==
  IF emotionScore < 50 THEN aiText \o breathingGuide ELSE aiText

\* if (score < 50) aiText += breathingGuide();
appendGuide(aiText, score) ==
  IF score < 50 THEN aiText \o breathingGuide ELSE aiText

\* The danger branch up to its await: synthesizeVoice(safeText) is called.
dangerBranch(q) ==
  [q EXCEPT !.danger = TRUE,
            !.text = safeText,
            !.speechArgs = Append(@, safeText),
            !.pc = "SYNTHESIZE"]

\* The completion branch up to its await: generateAIResponse is called.
completionBranch(q) ==
  [q EXCEPT !.completionArgs =
                Append(@, [userText |-> q.userText, icfList |-> q.icfList,
                           emotionScore |-> q.score]),
            !.pc = "COMPLETION_BRANCH"]

\* res.status(500).json({ error: "server_error" })
serverError(q) ==
  [q EXCEPT !.responses = Append(@, [status |-> 500, error |-> "server_error"]),
            !.pc = "ERROR"]

\* The handler from its entry to its first await, or to its catch block when
\* updateEmotionScore throws, on any body of `bodies`.  Calls are numbered in
\* the order their handlers start.
Receive(r, bodies) ==
  /\ req[r].pc = "RECEIVE"
  /\ \A p \in Requests : p < r => req[p].pc # "RECEIVE"
  /\ \E body \in bodies :
       LET userText == messageOrEmpty(body)
       IN  IF ~ hasIncludes(userText)
           THEN /\ req' = [req EXCEPT ![r] =
                             serverError([req[r] EXCEPT !.body = body,
                                                        !.userText = userText,
                                                        !.before = emotionScore,
                                                        !.score = emotionScore])]
                /\ UNCHANGED << emotionScore, emotionHistory >>
           ELSE LET score == updateEmotionScore(emotionScore, userText)
                    history == pushHistory(emotionHistory, emotionScore, score)
                    q == [req[r] EXCEPT !.body = body,
                                        !.userText = userText,
                                        !.before = emotionScore,
                                        !.score = score,
                                        !.icfList = detectICF(userText)]
                IN  /\ emotionScore' = score
                    /\ emotionHistory' = history
                    /\ req' = [req EXCEPT ![r] = IF detectDanger(userText)
                                                 THEN dangerBranch(q)
                                                 ELSE completionBranch(q)]

\* generateAIResponse resolves with `out`; the handler runs on to
\* synthesizeVoice(aiText).
CompletionResolve(r, out) ==
  /\ req[r].pc = "COMPLETION_BRANCH"
  /\ LET aiText == appendGuide(out, req[r].score)
     IN  req' = [req EXCEPT ![r].aiOut = out,
                            ![r].text = aiText,
                            ![r].speechArgs = Append(@, aiText),
                            ![r].pc = "SYNTHESIZE"]
  /\ UNCHANGED << emotionScore, emotionHistory >>

\* A catch block that undoes the score update of the failed request.
CatchErrorRollback(r) ==
  /\ req' = [req EXCEPT ![r].responses =
                            Append(@, [status |-> 500, error |-> "server_error"]),
                        ![r].pc = "ERROR"]
  /\ emotionScore' = req[r].before
  /\ emotionHistory' = SubSeq(emotionHistory, 1, Len(emotionHistory) - 1)

\* A catch block that calls the failed gateway once more before giving up.
CatchErrorRetry(r) ==
  /\ req' = IF Len(req[r].completionArgs) + Len(req[r].speechArgs) > 2
            THEN [req EXCEPT ![r].responses =
                               Append(@, [status |-> 500, error |-> "server_error"]),
                             ![r].pc = "ERROR"]
            ELSE IF req[r].pc = "COMPLETION_BRANCH"
            THEN [req EXCEPT ![r].completionArgs = Append(@, Head(@))]
            ELSE [req EXCEPT ![r].speechArgs = Append(@, Head(@))]
  /\ UNCHANGED << emotionScore, emotionHistory >>

\* catch (err) { res.status(500).json({ error: "server_error" }) }
CatchError(r) ==
  /\ req' = [req EXCEPT ![r] = serverError(req[r])]
  /\ UNCHANGED << emotionScore, emotionHistory >>

\* generateAIResponse rejects.
CompletionReject(r) ==
  /\ req[r].pc = "COMPLETION_BRANCH"
  /\ CatchError(r)

\* synthesizeVoice resolves with the encoded audio; res.json(...) is sent.
SpeechResolve(r, audio) ==
  /\ req[r].pc = "SYNTHESIZE"
  /\ req' = [req EXCEPT ![r].responses =
                            Append(@, [status |-> 200,
                                       text   |-> req[r].text,
                                       audio  |-> audio,
                                       danger |-> req[r].danger,
                                       score  |-> req[r].score,
                                       icf    |-> req[r].icfList]),
                        ![r].pc = "RESPOND"]
  /\ UNCHANGED << emotionScore, emotionHistory >>

\* synthesizeVoice rejects (the request or the read of its body fails).
SpeechReject(r) ==
  /\ req[r].pc = "SYNTHESIZE"
  /\ CatchError(r)

Next ==
  \/ \E r \in Requests : Receive(r, MainBodies)
  \/ \E r \in Requests, out \in MainOutputs : CompletionResolve(r, out)
  \/ \E r \in Requests : CompletionReject(r)
  \/ \E r \in Requests, audio \in AudioOutputs : SpeechResolve(r, audio)
  \/ \E r \in Requests : SpeechReject(r)

Spec == Init /\ [][Next]_vars

\* One request with any message of ScanTexts, from any reachable score.
NextScan ==
  \/ Receive(1, ScanBodies)
  \/ \E out \in ScanOutputs : CompletionResolve(1, out)
  \/ CompletionReject(1)
  \/ \E audio \in AudioOutputs : SpeechResolve(1, audio)
  \/ SpeechReject(1)

SpecScan == InitScan /\ [][NextScan]_vars

\* ------------------------------------------------------------ properties
Started(r) == req[r].pc # "RECEIVE"
Terminal == {"RESPOND", "ERROR"}
Waiting == {"COMPLETION_BRANCH", "SYNTHESIZE"}

\* w can be laid over the code units t at some position, unit by unit.
Occurs(w, t) ==
  \/ Len(w) = 0
  \/ \E a \in 1..Len(t) :
       \A k \in 1..Len(w) : a + k - 1 <= Len(t) /\ t[a + k - 1] = w[k]

\* The value the handler works on: the message, or "" for a missing or
\* falsy one.
TextOf(body) ==
  IF body.kind \in {"string", "array", "other"} THEN body ELSE Str(<<>>)

\* The word w is found in the value: inside a string, as an element of an
\* array, never in a value of another kind.
Found(w, text) ==
  CASE text.kind = "string" -> Occurs(w, text.v)
    [] text.kind = "array"  -> w \in { text.v[i] : i \in 1..Len(text.v) }
    [] OTHER                -> FALSE

WordSet(words) == { words[i] : i \in DOMAIN words }
NegativeHits(text) == Cardinality({ w \in WordSet(negativeWords) : Found(w, text) })
PositiveHits(text) == Cardinality({ w \in WordSet(positiveWords) : Found(w, text) })
DangerHits(text) == Cardinality({ w \in WordSet(dangerWords) : Found(w, text) })

\* n, p and the crisis words found, for every value the specifications
\* send, computed once.
HitTable ==
  [ t \in { Other } \cup { Str(x) : x \in MainTexts \cup ScanTexts }
                    \cup { Arr(x) : x \in MainArrays \cup ScanArrays } |->
      [n |-> NegativeHits(t), p |-> PositiveHits(t), d |-> DangerHits(t)] ]

HasDangerKeyword(text) == HitTable[text].d > 0

\* clamp(s - 5n + 5p, 0, 100), the clamp applied once to the net result.
NetScore(s, text) ==
  LET net == s - 5 * HitTable[text].n + 5 * HitTable[text].p
  IN  IF net < 0 THEN 0 ELSE IF net > 100 THEN 100 ELSE net

ErrorPayload == [status |-> 500, error |-> "server_error"]

\* The started requests whose message let updateEmotionScore run, and the
\* place of such a request among them in start order.
Scored == { r \in Requests : Started(r) /\ req[r].body.kind # "other" }
Rank(r) == Cardinality({ p \in Scored : p <= r })

\* C1: a request whose message contains a danger keyword never calls the
\* completion gateway, and if it succeeds its response has danger = true and
\* the fixed safe message as text, whatever the score and the earlier requests.
C1_DangerBypassesCompletion ==
  \A r \in Requests :
    (Started(r) /\ HasDangerKeyword(TextOf(req[r].body)))
      => /\ req[r].completionArgs = <<>>
         /\ req[r].pc = "RESPOND" =>
              /\ req[r].responses[1].danger = TRUE
              /\ req[r].responses[1].text = dangerResponse

\* A danger request answered successfully after earlier requests moved the score.
C1_Witness ==
  \E r \in Requests :
    /\ r > 1
    /\ req[r].pc = "RESPOND"
    /\ HasDangerKeyword(TextOf(req[r].body))
    /\ req[r].before # InitialScore
    /\ req[r].responses[1].danger

\* C2 as stated: on danger the response text, and the text sent to speech
\* synthesis, is the safety message followed by the breathing-guide script.
C2_Original ==
  \A r \in Requests :
    (req[r].pc = "RESPOND" /\ req[r].danger)
      => /\ req[r].responses[1].text = dangerResponse \o breathingGuide
         /\ req[r].speechArgs = << dangerResponse \o breathingGuide >>

\* C2 amended: on danger the text sent to speech synthesis and the response
\* text are exactly the six pieces of the safety message, whose last lines
\* invite one deep breath (four in, six out); the breathing-guide script with
\* its hold step is not part of it.
C2_DangerTextIsSafetyMessageOnly ==
  \A r \in Requests :
    (Started(r) /\ req[r].danger)
      => /\ req[r].speechArgs = << req[r].text >>
         /\ Len(req[r].text) = 6
         /\ req[r].text[1] = "You are feeling very hurt right now. Your feelings matter, "
         /\ req[r].text[6] =
              "Counting four while breathing in, six while breathing out, slowly is fine."
         /\ \A i \in 1..Len(req[r].text) : req[r].text[i] # "2 hold for 2 seconds\n"
         /\ ~ Occurs(breathingGuide, req[r].text)
         /\ req[r].pc = "RESPOND" => req[r].responses[1].text = req[r].text

\* A danger request answered successfully while its own score is below 50.
C2_Witness ==
  \E r \in Requests :
    /\ req[r].pc = "RESPOND"
    /\ req[r].danger
    /\ req[r].score < 50
    /\ req[r].responses[1].text = dangerResponse

\* C3: a successful non-danger response carries the completion output with
\* the breathing guide appended exactly when the score of the request's own
\* update is below 50, and the bare completion output otherwise.
C3_GuideIffOwnScoreBelow50 ==
  \A r \in Requests :
    (req[r].pc = "RESPOND" /\ ~ req[r].responses[1].danger)
      => LET own == NetScore(req[r].before, TextOf(req[r].body))
         IN  /\ req[r].responses[1].score = own
             /\ req[r].responses[1].text =
                  IF own < 50 THEN req[r].aiOut \o breathingGuide ELSE req[r].aiOut
             /\ req[r].speechArgs = << req[r].responses[1].text >>

\* A guided response sent while the shared score has moved back to 50 or more.
C3_Witness ==
  \E r \in Requests :
    /\ req[r].pc = "RESPOND"
    /\ ~ req[r].danger
    /\ req[r].score < 50
    /\ emotionScore >= 50
    /\ req[r].responses[1].text = req[r].aiOut \o breathingGuide

\* C4: the shared score, every history entry and every score in a response
\* is an integer between 0 and 100.
C4_ScoreInRange ==
  /\ emotionScore \in 0..100
  /\ \A i \in 1..Len(emotionHistory) : emotionHistory[i].score \in 0..100
  /\ \A r \in Requests :
       /\ Started(r) => req[r].score \in 0..100
       /\ req[r].pc = "RESPOND" => req[r].responses[1].score \in 0..100

\* An update whose net result lay below 0, answered with score 0.
C4_Witness ==
  \E r \in Requests :
    /\ req[r].pc = "RESPOND"
    /\ req[r].before - 5 * HitTable[TextOf(req[r].body)].n < 0
    /\ req[r].responses[1].score = 0
    /\ emotionScore = 0
    /\ emotionHistory[Len(emotionHistory)].score = 0

\* C5: a text with none of the listed negative or positive words leaves the
\* shared score as it was; a request without a message field is handled as
\* the empty string: no tags, no danger, score unchanged, and the completion
\* gateway called with empty user text.
C5_NoKeywordNoChange ==
  Started(1) =>
    /\ (/\ req[1].body.kind # "other"
        /\ HitTable[TextOf(req[1].body)].n = 0
        /\ HitTable[TextOf(req[1].body)].p = 0)
         => /\ req[1].score = req[1].before
            /\ emotionScore = req[1].before
            /\ emotionHistory[Len(emotionHistory)].score = req[1].before
    /\ req[1].body.kind = "undefined"
         => /\ req[1].userText = Str(<<>>)
            /\ req[1].icfList = <<>>
            /\ ~ req[1].danger
            /\ emotionScore = req[1].before
            /\ req[1].completionArgs =
                 << [userText |-> Str(<<>>), icfList |-> <<>>,
                     emotionScore |-> req[1].before] >>
            /\ req[1].pc = "RESPOND" =>
                 /\ req[1].responses[1].danger = FALSE
                 /\ req[1].responses[1].icf = <<>>
                 /\ req[1].responses[1].score = req[1].before

\* A request without a message answered successfully at a score other than 70.
C5_Witness ==
  /\ req[1].pc = "RESPOND"
  /\ req[1].body.kind = "undefined"
  /\ req[1].before = 35
  /\ emotionScore = 35

\* C6: on a text the update sets the score to clamp(s - 5n + 5p, 0, 100), n
\* and p the numbers of distinct listed negative and positive words in the
\* text, the clamp applied once to the net result.
C6_ScoreIsClampedNet ==
  (Started(1) /\ req[1].body.kind # "other") =>
    /\ req[1].score = NetScore(req[1].before, TextOf(req[1].body))
    /\ emotionScore = req[1].score
    /\ emotionHistory[Len(emotionHistory)].score = req[1].score

\* A word occurring twice is counted once.
C6_Witness ==
  /\ Started(1)
  /\ req[1].userText = Str(w_tsurai \o w_tsurai)
  /\ req[1].before = 50
  /\ emotionScore = 45

\* The step property of C7: every request has written at most one response;
\* it is in RESPOND with one 200 payload of text, audio, danger, score and
\* icf, or in ERROR with the one payload 500 server_error, or has written
\* nothing; each gateway has been called at most once; a waiting request
\* that leaves its wait ends in that step or goes on to the speech gateway;
\* a terminal request never changes again.
C7_Step ==
  \A r \in Requests :
    /\ Len(req'[r].completionArgs) <= 1
    /\ Len(req'[r].speechArgs) <= 1
    /\ req'[r].pc \notin Terminal => req'[r].responses = <<>>
    /\ req'[r].pc = "ERROR" => req'[r].responses = << ErrorPayload >>
    /\ req'[r].pc = "RESPOND" =>
         /\ Len(req'[r].responses) = 1
         /\ req'[r].responses[1].status = 200
         /\ DOMAIN req'[r].responses[1] =
              {"status", "text", "audio", "danger", "score", "icf"}
    /\ req[r].pc \in Terminal => req'[r] = req[r]
    /\ (req[r].pc \notin Terminal /\ req'[r].pc = req[r].pc) => req'[r] = req[r]

\* C7: every step of every behaviour keeps C7_Step: one terminal state per
\* request, a gateway failure ends in ERROR with 500 server_error, no retry.
C7_OneTerminalState == [][C7_Step]_vars

\* One request failed at the completion gateway, one at the speech gateway.
C7_Witness ==
  \E r1, r2 \in Requests :
    /\ req[r1].pc = "ERROR" /\ Len(req[r1].completionArgs) = 1 /\ req[r1].speechArgs = <<>>
    /\ req[r2].pc = "ERROR" /\ Len(req[r2].speechArgs) = 1
    /\ req[r1].responses = << ErrorPayload >>

\* C8: on a string detectDanger answers true exactly when the text contains
\* one of the configured crisis words; each configured word alone triggers it
\* and the empty text does not.
C8_DetectDangerIffKeyword ==
  /\ (Started(1) /\ req[1].userText.kind = "string") =>
       /\ req[1].danger <=> HasDangerKeyword(req[1].userText)
       /\ detectDanger(req[1].userText) <=> HasDangerKeyword(req[1].userText)
  /\ \A w \in WordSet(dangerWords) : detectDanger(Str(w))
  /\ ~ detectDanger(Str(<<>>))

\* A message that is one crisis word and nothing else, taken as danger; the
\* word is formed across the boundary of two fragments.
C8_Witness ==
  /\ Started(1)
  /\ req[1].userText = Str(w_moumuri)
  /\ req[1].danger
  /\ req[1].completionArgs = <<>>

\* The step property of C9: the step in which a request leaves its wait on a
\* gateway, into ERROR or into RESPOND alike, leaves the shared score and the
\* history as they were, with the request's own history entry still in place.
C9_Step ==
  \A r \in Requests :
    (req[r].pc \in Waiting /\ req'[r].pc \in Terminal)
      => /\ emotionScore' = emotionScore
         /\ emotionHistory' = emotionHistory
         /\ Rank(r) >= 1
         /\ Len(emotionHistory') >= Rank(r)
         /\ emotionHistory'[Rank(r)].score = req[r].score

\* C9: every step of every behaviour keeps C9_Step: a failed request's score
\* change and history entry stay, exactly as for a successful request.
C9_NoRollback == [][C9_Step]_vars

\* A request failed at a gateway whose score change is the current shared score.
C9_Witness ==
  \E r \in Requests :
    /\ req[r].pc = "ERROR"
    /\ Len(req[r].completionArgs) + Len(req[r].speechArgs) > 0
    /\ req[r].score # req[r].before
    /\ Len(emotionHistory) = Rank(r)
    /\ emotionHistory[Rank(r)].score = req[r].score
    /\ emotionScore = req[r].score

\* C10 as stated: the history holds exactly one entry per request, in start
\* order, the last entry is the shared score, every request read the score
\* its predecessor wrote and a response carries the request's own score.
C10_Original ==
  LET started == { r \in Requests : Started(r) }
  IN  /\ Len(emotionHistory) = Cardinality(started)
      /\ \A r \in started :
           /\ req[r].before = IF r = 1 THEN InitialScore ELSE req[r - 1].score
           /\ emotionHistory[r].score = req[r].score
           /\ req[r].pc = "RESPOND" => req[r].responses[1].score = req[r].score
      /\ emotionScore = IF started = {} THEN InitialScore
                        ELSE emotionHistory[Len(emotionHistory)].score

\* C10 amended: with requests interleaving at the gateway awaits no update is
\* lost.  The history holds exactly one entry per request whose update ran,
\* in start order; each such request read the score the one before it wrote;
\* the last entry is the shared score; a response carries the score of the
\* request's own update.  A request whose message has no includes method
\* ends in ERROR before the update: no entry, no score change, no gateway call.
C10_NoLostUpdate ==
  /\ Len(emotionHistory) = Cardinality(Scored)
  /\ \A r \in Scored :
       /\ req[r].before = IF Rank(r) = 1 THEN InitialScore
                          ELSE emotionHistory[Rank(r) - 1].score
       /\ req[r].score = NetScore(req[r].before, TextOf(req[r].body))
       /\ emotionHistory[Rank(r)].score = req[r].score
       /\ req[r].pc = "RESPOND" => req[r].responses[1].score = req[r].score
  /\ \A r \in Requests :
       (Started(r) /\ r \notin Scored)
         => /\ req[r].pc = "ERROR"
            /\ req[r].completionArgs = <<>>
            /\ req[r].speechArgs = <<>>
  /\ emotionScore = IF Scored = {} THEN InitialScore
                    ELSE emotionHistory[Len(emotionHistory)].score

\* The first request still waits on a gateway, the second threw before its
\* update, the third started later and is answered with another score.
C10_Witness ==
  \E r1, r2, r3 \in Requests :
    /\ r1 < r2 /\ r2 < r3
    /\ req[r1].pc \in Waiting
    /\ req[r2].pc = "ERROR" /\ req[r2].body = Other
    /\ req[r3].pc = "RESPOND"
    /\ req[r3].score # req[r1].score
    /\ Len(emotionHistory) = 2

TypeOK ==
  /\ emotionScore \in Int
  /\ \A r \in Requests :
        req[r].pc \in {"RECEIVE", "COMPLETION_BRANCH", "SYNTHESIZE", "RESPOND", "ERROR"}

====
